---- MODULE Spec2Model ----
(***************************************************************************)
(* The recording session of useAudioRecorder (src/unnamed/part_003, the    *)
(* hook that imports utils/browserSupport and effects/audioEffects).       *)
(*                                                                         *)
(* React state and refs of the hook are the variables that carry the       *)
(* source's names.  The capture engine (MediaRecorder), the device stream, *)
(* the interval timers and the device-access promise are the environment.  *)
(* One action is one event-loop task: a call of one of the hook's          *)
(* operations or the delivery of one callback.  State updates made by a    *)
(* task are batched (react ^18.2.0, src/unnamed/part_000:129) and the      *)
(* re-render that follows, with the cleanup of the hook's effect, is part  *)
(* of the action (Render).                                                 *)
(***************************************************************************)
EXTENDS Integers, Sequences, FiniteSets, TLC

\* ---- bounds ----
MaxRecorders == 2      \* capture engines (each with its own stream) in use at once
MaxTimers == 3         \* interval handles referenced or live at once
MaxChunks == 2         \* non-empty chunks held in the two buffers
MaxDuration == 1       \* cap of recordingDuration
MaxStarts == 2         \* startRecording calls made in one run
MaxUrls == 2           \* object URLs outstanding at once
MaxSupported == 2      \* content types a browser accepts, when all browsers are drawn

Null == 0
RecIds == 1..MaxRecorders
TimerIds == 1..MaxTimers
UrlIds == 1..MaxUrls
\* event.data.size of a delivered chunk: empty, chunk A (10 bytes), chunk B (20 bytes)
ChunkSizes == {0, 10, 20}
\* AudioEffectType values an effect spec is drawn from
EffectTypes == {"none", "echo"}

VARIABLES
    \* React state of the hook
    mediaRecorder, isRecording, isPaused, recordingDuration, timer, mediaStream,
    error, isPermissionDenied, currentEffect,
    currentVolume,     \* 0, or 1 once a volume sample has been published
    \* refs of the hook
    audioChunks, pausedChunks, audioUrl, audioContext,
    volumeTimer,       \* volumeTimerRef: the sampling chain whose timeout it holds
    mimeType,          \* mimeTypeRef: the content type resolved at the last granted start
    \* values captured by the closure of the hook's last effect run
    effect,
    \* startRecording calls suspended at getUserMedia, each with its captured timer
    pending,
    \* options
    preferredMimeType, \* the caller's preferred content type, "" when not given
    \* environment
    browser,           \* the primitives present, the user agent's class, the types
                       \* MediaRecorder.isTypeSupported accepts
    isSupported,       \* browserCompatibility.isSupported, fixed at construction
    recState,          \* MediaRecorder.state of each engine
    recQueue,          \* events an engine has queued for delivery
    tracksLive,        \* streams (named by their engine) whose tracks are not stopped
    intervals,         \* interval handles that are still scheduled
    urls,              \* object URLs created and not revoked
    ctxOpen,           \* audio contexts (named by their engine) that are not closed
    volumeChains,      \* updateVolume chains (named by their engine) with a timeout scheduled
    \* history
    ingested,          \* non-empty chunks delivered since the buffers were cleared
    stopRequested,     \* engines stopped by stopRecording
    starts,            \* startRecording calls made so far
    cancelled,         \* cancelRecording has run and no start was granted since
    durationAtPause,   \* recordingDuration when pauseRecording last paused, -1 if none
    playIssued,        \* object URLs playRecording created that are not revoked
    \* the options' callback (the model's hook is given one)
    notSupportedCalls, \* invocations of onNotSupported so far
    \* the component's life
    unmounted,         \* the component holding the hook has been unmounted
    \* results
    artifact,          \* the Blob the last call of createAudioBlob on given buffers returned
    \* the processing graph
    routedEffect,      \* the effect wired from the microphone source to the destination
    graph              \* the nodes and connections made on a media source node

vars == <<mediaRecorder, isRecording, isPaused, recordingDuration, timer, mediaStream,
          error, isPermissionDenied, currentEffect, audioChunks, pausedChunks, audioUrl,
          audioContext, ctxOpen, playIssued, volumeTimer, volumeChains,
          effect, pending,
          preferredMimeType, browser, isSupported, recState, recQueue, tracksLive, intervals, urls,
          ingested, stopRequested, starts, cancelled, durationAtPause, graph, unmounted, currentVolume, artifact, mimeType, routedEffect, notSupportedCalls>>

\* ---- helpers ----
Min(S) == CHOOSE x \in S : \A y \in S : x <= y

RECURSIVE SumSeq(_)
SumSeq(s) == IF s = <<>> THEN 0 ELSE Head(s) + SumSeq(Tail(s))

IsPrefix(s, t) == Len(s) <= Len(t) /\ SubSeq(t, 1, Len(s)) = s

RemoveAt(s, i) == SubSeq(s, 1, i - 1) \o SubSeq(s, i + 1, Len(s))

\* the absent result of createAudioBlob (null)
NoResult == [absent |-> TRUE, chunks |-> <<>>]

\* interval handles some closure or state still holds, or that still run
UsedTimers == {timer, effect.timer} \cup intervals \cup {pending[i].timer : i \in DOMAIN pending}
FreeTimers == TimerIds \ UsedTimers

\* an engine id is free when the engine is finished and nothing refers to it or its stream
UsedRecorders ==
    {mediaRecorder, mediaStream, effect.mediaRecorder, effect.mediaStream, audioContext}
      \cup tracksLive \cup ctxOpen \cup volumeChains
      \cup {r \in RecIds : recState[r] # "inactive" \/ recQueue[r] # <<>>}
FreeRecorders == RecIds \ UsedRecorders

\* ---- capability detection and codec resolution (utils/browserSupport) ----

\* iOSMimeTypes and mimeTypes of getBestSupportedMimeType, in their order
iOSMimeTypes ==
    <<"audio/mp4;codecs=mp4a", "audio/mp4", "audio/aac", "audio/x-m4a", "audio/mpeg",
      "audio/3gpp", "audio/wav", "audio/webm">>
mimeTypes ==
    <<"audio/webm;codecs=opus", "audio/webm", "audio/ogg;codecs=opus", "audio/ogg",
      "audio/mp4", "audio/wav">>

Range(f) == {f[i] : i \in DOMAIN f}

\* the content types of the model: the listed ones and one that is on no list
MimeTypes == Range(iOSMimeTypes) \cup Range(mimeTypes) \cup {"audio/flac"}

\* String.prototype.includes over the content types of the model
Includes(label, part) ==
    CASE part = "mp4" -> label \in {"audio/mp4;codecs=mp4a", "audio/mp4"}
      [] part = "aac" -> label \in {"audio/aac"}

isMediaRecorderSupported == browser.mediaRecorder
isGetUserMediaSupported == browser.getUserMedia
isAudioContextSupported == browser.audioContext
isIOS == browser.iOS

\* MediaRecorder.isTypeSupported behind the check that MediaRecorder exists
isMimeTypeSupported(mimeType_) ==
    IF ~isMediaRecorderSupported THEN FALSE ELSE mimeType_ \in browser.types

\* for (const mimeType of list) if (MediaRecorder.isTypeSupported(mimeType)) return
\* mimeType; the result is "" when the loop ends without returning
RECURSIVE FirstSupported(_)
FirstSupported(list) ==
    IF list = <<>> THEN ""
    ELSE IF Head(list) \in browser.types THEN Head(list)
    ELSE FirstSupported(Tail(list))

getBestSupportedMimeType_noFallback ==
    IF ~isMediaRecorderSupported THEN ""
    ELSE LET ios == IF isIOS THEN FirstSupported(iOSMimeTypes) ELSE "" IN
         IF ios # "" THEN ios ELSE FirstSupported(mimeTypes)

getBestSupportedMimeType ==
    IF ~isMediaRecorderSupported THEN ""
    ELSE LET ios == IF isIOS THEN FirstSupported(iOSMimeTypes) ELSE "" IN
         IF ios # "" THEN ios
         ELSE LET general == FirstSupported(mimeTypes) IN
              IF general # "" THEN general ELSE "audio/webm"

isAudioRecordingSupported ==
    /\ isMediaRecorderSupported
    /\ isGetUserMediaSupported
    /\ isAudioContextSupported
    /\ getBestSupportedMimeType # ""

getSupportedMimeType_ignoresPreferred == getBestSupportedMimeType

\* getSupportedMimeType of the hook
getSupportedMimeType ==
    IF preferredMimeType # "" /\ isMimeTypeSupported(preferredMimeType)
    THEN preferredMimeType
    ELSE getBestSupportedMimeType

\* the browsers the session is run in: a desktop browser with every primitive
\* that records webm, and a browser without MediaRecorder
SupportedBrowser ==
    [mediaRecorder |-> TRUE, getUserMedia |-> TRUE, audioContext |-> TRUE,
     iOS |-> FALSE, types |-> {"audio/webm;codecs=opus", "audio/webm"}]
UnsupportedBrowser ==
    [mediaRecorder |-> FALSE, getUserMedia |-> TRUE, audioContext |-> TRUE,
     iOS |-> FALSE, types |-> {}]

\* all browsers: any primitives, either user-agent class, up to MaxSupported
\* accepted types (none without MediaRecorder, which is what answers the question)
Browsers ==
    {b \in [mediaRecorder : BOOLEAN, getUserMedia : BOOLEAN, audioContext : BOOLEAN,
            iOS : BOOLEAN, types : {T \in SUBSET MimeTypes : Cardinality(T) <= MaxSupported}] :
        ~b.mediaRecorder => b.types = {}}

\* ---- rendering ----
\* The state a task works on: the hook's state, refs and the resources they name.
Hook ==
    [mediaRecorder |-> mediaRecorder, timer |-> timer, mediaStream |-> mediaStream,
     audioUrl |-> audioUrl, effect |-> effect,
     audioContext |-> audioContext,
     recState |-> recState, intervals |-> intervals, tracksLive |-> tracksLive,
     urls |-> urls, ctxOpen |-> ctxOpen, playIssued |-> playIssued,
     volumeTimer |-> volumeTimer, volumeChains |-> volumeChains]

cleanupAudioUrl_forgetOnly(h) == [h EXCEPT !.audioUrl = Null]

\* URL.revokeObjectURL(audioUrlRef.current); audioUrlRef.current = null
cleanupAudioUrl(h) ==
    IF h.audioUrl # Null
    THEN [h EXCEPT !.urls = @ \ {h.audioUrl}, !.audioUrl = Null]
    ELSE h

stopMediaStream_tracksOnly(h, stream) ==
    IF stream # Null
    THEN [h EXCEPT !.tracksLive = @ \ {stream}]
    ELSE h

\* every track of the stream is stopped, setMediaStream(null)
stopMediaStream(h, stream) ==
    IF stream # Null
    THEN [h EXCEPT !.tracksLive = @ \ {stream}, !.mediaStream = Null]
    ELSE h

\* if (timer) clearInterval(timer)
clearInterval(h, t) == [h EXCEPT !.intervals = @ \ {t}]

\* clearTimeout(volumeTimerRef.current): the chain whose timeout the ref holds
\* stops; a chain whose timeout the ref does not hold goes on
clearTimeout(h) == [h EXCEPT !.volumeChains = @ \ {h.volumeTimer}]

\* audioContext.close(): closing the context a ref holds, if it holds one
closeAudioContext(h) == [h EXCEPT !.ctxOpen = @ \ {h.audioContext}]

\* the cleanup the hook's effect returns, run with the values its closure captured
\* and with the refs as they are when it runs
EffectCleanup(h) ==
    IF h.effect.mediaRecorder = Null \/ h.recState[h.effect.mediaRecorder] # "inactive"
    THEN h
    ELSE cleanupAudioUrl(stopMediaStream(
             closeAudioContext(clearTimeout(clearInterval(h, h.effect.timer))),
             h.effect.mediaStream))

\* useEffect(..., [mediaStream, stopMediaStream, timer, cleanupAudioUrl]): when a
\* dependency changed, the previous cleanup runs and the effect captures this render
RECURSIVE Render(_)
Render(h) ==
    IF h.mediaStream = h.effect.mediaStream /\ h.timer = h.effect.timer
    THEN h
    ELSE Render([EffectCleanup(h) EXCEPT
                   !.effect = [mediaRecorder |-> h.mediaRecorder, timer |-> h.timer,
                               mediaStream |-> h.mediaStream]])

\* commit the task's batched updates and re-render
Commit(h) ==
    LET r == Render(h) IN
    /\ mediaRecorder' = r.mediaRecorder
    /\ timer' = r.timer
    /\ mediaStream' = r.mediaStream
    /\ audioUrl' = r.audioUrl
    /\ effect' = r.effect
    /\ recState' = r.recState
    /\ intervals' = r.intervals
    /\ tracksLive' = r.tracksLive
    /\ urls' = r.urls
    /\ audioContext' = r.audioContext
    /\ ctxOpen' = r.ctxOpen
    /\ playIssued' = r.playIssued \cap r.urls
    /\ volumeTimer' = r.volumeTimer
    /\ volumeChains' = r.volumeChains

HookVars == <<mediaRecorder, timer, mediaStream, audioUrl, effect, recState, intervals,
              tracksLive, urls, audioContext, ctxOpen, playIssued, volumeTimer,
              volumeChains>>

\* ---- the processing graph (audioEffects) ----

MaxEffects == 2  \* effects wired one after another on the same source node

\* enum AudioEffectType
AudioEffectType ==
    {"none", "reverb", "echo", "distortion", "lowpass", "highpass", "telephone"}

\* the type field of the options given, one value outside the enum included
EffectInputs == AudioEffectType \cup {"robot"}

\* the mix field of the options given, in tenths; Omitted when the field is absent
Omitted == -1
MixInputs == {Omitted, 0, 3, 10}

\* a node is known by the call of applyAudioEffect that created it and its role
Node(n, role) == [inst |-> n, role |-> role]
Source == Node(0, "source")
Destination == Node(0, "destination")

\* no connection made, no gain node created, applyAudioEffect not yet called
EmptyGraph == [edges |-> {}, gains |-> {}, made |-> 0]

\* AudioNode.connect(b) on node a
connect(g, a, b) == [g EXCEPT !.edges = @ \cup {<<a, b>>}]

\* AudioNode.disconnect() on node a: all outgoing connections of a are removed
disconnect(g, a) == [g EXCEPT !.edges = {e \in @ : e[1] # a}]

\* context.createGain() and the assignment of gain.value (tenths)
createGain(g, node, value) == [g EXCEPT !.gains = @ \cup {<<node, value>>}]

\* the nodes of a sequence connected each to the next
RECURSIVE connectChain(_, _)
connectChain(g, path) ==
    IF Len(path) < 2 THEN g
    ELSE connectChain(connect(g, path[1], path[2]), Tail(path))

\* the dry/wet mixer every create...Effect function builds around its transform
\* nodes: dryGain.gain.value = 1 - mix, wetGain.gain.value = mix, source to
\* dryGain to destination, source through the transforms to wetGain to destination
dryWetMixer(g, n, mix, transforms) ==
    LET dryGain == Node(n, "dryGain")
        wetGain == Node(n, "wetGain")
        gains   == createGain(createGain(g, dryGain, 10 - mix), wetGain, mix)
        dry     == connectChain(gains, <<Source, dryGain, Destination>>)
    IN connectChain(dry, <<Source>> \o [i \in 1..Len(transforms) |-> Node(n, transforms[i])]
                             \o <<wetGain, Destination>>)

createReverbEffect(g, n, mix) == dryWetMixer(g, n, mix, <<"convolver">>)

\* feedback.gain.value = params.feedback ?? 0.4; delay.connect(feedback);
\* feedback.connect(delay)
createEchoEffect(g, n, mix) ==
    LET delay    == Node(n, "delay")
        feedback == Node(n, "feedback")
    IN connectChain(dryWetMixer(createGain(g, feedback, 4), n, mix, <<"delay">>),
                    <<delay, feedback, delay>>)

createDistortionEffect(g, n, mix) == dryWetMixer(g, n, mix, <<"distortion">>)

createLowPassFilter(g, n, mix) == dryWetMixer(g, n, mix, <<"filter">>)

createHighPassFilter(g, n, mix) == dryWetMixer(g, n, mix, <<"filter">>)

createTelephoneEffect(g, n, mix) ==
    dryWetMixer(g, n, mix, <<"highpass", "lowpass", "distortion">>)

applyAudioEffect_falsyMix(g, options) ==
    LET n   == g.made + 1
        mix == IF options.mix \in {Omitted, 0} THEN 5 ELSE options.mix
        h   == [g EXCEPT !.made = n]
    IN CASE options.type = "none"       -> connect(h, Source, Destination)
         [] options.type = "reverb"     -> createReverbEffect(h, n, mix)
         [] options.type = "echo"       -> createEchoEffect(h, n, mix)
         [] options.type = "distortion" -> createDistortionEffect(h, n, mix)
         [] options.type = "lowpass"    -> createLowPassFilter(h, n, mix)
         [] options.type = "highpass"   -> createHighPassFilter(h, n, mix)
         [] options.type = "telephone"  -> createTelephoneEffect(h, n, mix)
         [] OTHER                      -> connect(h, Source, Destination)

\* applyAudioEffect(audioContext, sourceNode, destinationNode, options), its n-th
\* call on this graph: mix = options.mix ?? 0.5
applyAudioEffect(g, options) ==
    LET n   == g.made + 1
        mix == IF options.mix = Omitted THEN 5 ELSE options.mix
        h   == [g EXCEPT !.made = n]
    IN CASE options.type = "none"       -> connect(h, Source, Destination)
         [] options.type = "reverb"     -> createReverbEffect(h, n, mix)
         [] options.type = "echo"       -> createEchoEffect(h, n, mix)
         [] options.type = "distortion" -> createDistortionEffect(h, n, mix)
         [] options.type = "lowpass"    -> createLowPassFilter(h, n, mix)
         [] options.type = "highpass"   -> createHighPassFilter(h, n, mix)
         [] options.type = "telephone"  -> createTelephoneEffect(h, n, mix)
         [] OTHER                      -> connect(h, Source, Destination)

\* the routing block of applyEffect: mediaSourceRef.current.disconnect(), then
\* applyAudioEffect(audioContext, mediaSourceRef.current, destination, options)
switchEffect(g, options) == applyAudioEffect(disconnect(g, Source), options)

\* the hook's state after its first render and mount effects, in a given browser
Constructed ==
    /\ mediaRecorder = Null /\ isRecording = FALSE /\ isPaused = FALSE
    /\ recordingDuration = 0 /\ timer = Null /\ mediaStream = Null
    /\ error = "none" /\ isPermissionDenied = FALSE /\ currentEffect = "none"
    /\ audioChunks = <<>> /\ pausedChunks = <<>> /\ audioUrl = Null
    /\ effect = [mediaRecorder |-> Null, timer |-> Null, mediaStream |-> Null]
    /\ pending = <<>>
    /\ isSupported = isAudioRecordingSupported
    /\ recState = [r \in RecIds |-> "inactive"]
    /\ recQueue = [r \in RecIds |-> <<>>]
    /\ tracksLive = {}
    /\ intervals = {}
    /\ urls = {}
    /\ audioContext = Null
    /\ ctxOpen = {}
    /\ playIssued = {}
    /\ volumeTimer = Null
    /\ volumeChains = {}
    /\ ingested = <<>>
    /\ stopRequested = {}
    /\ durationAtPause = -1
    /\ starts = 0
    /\ cancelled = FALSE
    /\ graph = EmptyGraph
    /\ unmounted = FALSE
    /\ currentVolume = 0
    /\ artifact = NoResult
    /\ mimeType = "audio/webm"
    /\ routedEffect = "none"
    \* the mount effect calls onNotSupported once when recording is unsupported
    /\ notSupportedCalls = (IF isSupported THEN 0 ELSE 1)

\* the session is run without a preferred type, in either of two browsers
Init ==
    /\ browser \in {SupportedBrowser, UnsupportedBrowser}
    /\ preferredMimeType = ""
    /\ Constructed

\* ---- the capture engine's callbacks ----
\* The engine is the browser's MediaRecorder: events are queued tasks, delivered
\* after the task that caused them.  stop() makes the state inactive at once and
\* queues the final dataavailable (possibly empty) and then stop; a fault makes
\* the state inactive, fires error and queues the same two events.  A paused or
\* inactive engine emits no timeslice chunk.

ondataavailable_overwrite(size) ==
    /\ audioChunks' = IF size > 0 THEN <<size>> ELSE audioChunks
    /\ ingested' = IF size > 0 THEN Append(ingested, size) ELSE ingested

\* recorder.ondataavailable
ondataavailable(size) ==
    /\ audioChunks' = IF size > 0 THEN Append(audioChunks, size) ELSE audioChunks
    /\ ingested' = IF size > 0 THEN Append(ingested, size) ELSE ingested

\* chunks are told apart by their size: the k-th non-empty chunk delivered since
\* the buffers were cleared is 10 * k bytes long (chunk A, chunk B)
NextChunkSize == 10 * (Len(ingested) + 1)

\* a chunk emitted every chunkInterval ms while the engine records
DataAvailable(r, size) ==
    /\ recState[r] = "recording"
    /\ size > 0 => (Len(ingested) < MaxChunks /\ size = NextChunkSize)
    /\ ondataavailable(size)
    /\ UNCHANGED <<HookVars, isRecording, isPaused, recordingDuration, error,
                   isPermissionDenied, currentEffect, pausedChunks, pending, isSupported, browser, preferredMimeType, recQueue,
                   stopRequested, starts, cancelled, durationAtPause>>
    /\ UNCHANGED notSupportedCalls
    /\ UNCHANGED routedEffect
    /\ UNCHANGED mimeType
    /\ UNCHANGED artifact
    /\ UNCHANGED currentVolume
    /\ UNCHANGED unmounted
    /\ UNCHANGED graph

\* the final chunk an engine delivers after stop() or after a fault
FlushData(r, size) ==
    /\ recQueue[r] # <<>> /\ Head(recQueue[r]) = "dataavailable"
    /\ size > 0 => (Len(ingested) < MaxChunks /\ size = NextChunkSize)
    /\ ondataavailable(size)
    /\ recQueue' = [recQueue EXCEPT ![r] = Tail(@)]
    /\ UNCHANGED <<HookVars, isRecording, isPaused, recordingDuration, error,
                   isPermissionDenied, currentEffect, pausedChunks, pending, isSupported, browser, preferredMimeType,
                   stopRequested, starts, cancelled, durationAtPause>>
    /\ UNCHANGED notSupportedCalls
    /\ UNCHANGED routedEffect
    /\ UNCHANGED mimeType
    /\ UNCHANGED artifact
    /\ UNCHANGED currentVolume
    /\ UNCHANGED unmounted
    /\ UNCHANGED graph

\* recorder.onstop; the stream of engine r is the stream its closure holds
OnStop(r) ==
    /\ recQueue[r] # <<>> /\ Head(recQueue[r]) = "stop"
    /\ recQueue' = [recQueue EXCEPT ![r] = Tail(@)]
    /\ IF audioChunks = <<>> /\ pausedChunks = <<>>
       THEN UNCHANGED HookVars
       ELSE Commit(stopMediaStream(Hook, r))
    /\ UNCHANGED <<isRecording, isPaused, recordingDuration, error, isPermissionDenied,
                   audioChunks, pausedChunks, pending, isSupported, browser, preferredMimeType,
                   ingested, stopRequested, starts, cancelled, durationAtPause>>
    /\ UNCHANGED currentEffect
    /\ UNCHANGED notSupportedCalls
    /\ UNCHANGED routedEffect
    /\ UNCHANGED mimeType
    /\ UNCHANGED artifact
    /\ UNCHANGED currentVolume
    /\ UNCHANGED unmounted
    /\ UNCHANGED graph

\* a fatal fault: the engine goes inactive and fires error (recorder.onerror runs),
\* then delivers its last data and stop
OnError(r) ==
    /\ recState[r] \in {"recording", "paused"}
    /\ recQueue' = [recQueue EXCEPT ![r] = <<"dataavailable", "stop">>]
    /\ isRecording' = FALSE
    /\ isPaused' = FALSE
    /\ Commit(stopMediaStream([Hook EXCEPT !.recState[r] = "inactive"], r))
    /\ durationAtPause' = -1
    /\ UNCHANGED <<recordingDuration, error, isPermissionDenied, audioChunks, pausedChunks,
                   pending, isSupported, browser, preferredMimeType, ingested, stopRequested, starts, cancelled>>
    /\ UNCHANGED currentEffect
    /\ UNCHANGED notSupportedCalls
    /\ UNCHANGED routedEffect
    /\ UNCHANGED mimeType
    /\ UNCHANGED artifact
    /\ UNCHANGED currentVolume
    /\ UNCHANGED unmounted
    /\ UNCHANGED graph

\* one firing of an interval created by setInterval(..., 1000)
Tick(t) ==
    /\ t \in intervals
    /\ recordingDuration < MaxDuration
    /\ recordingDuration' = recordingDuration + 1
    /\ UNCHANGED <<HookVars, isRecording, isPaused, error, isPermissionDenied,
                   audioChunks, pausedChunks, pending, isSupported, browser, preferredMimeType, recQueue,
                   ingested, stopRequested, starts, cancelled, durationAtPause>>
    /\ UNCHANGED currentEffect
    /\ UNCHANGED notSupportedCalls
    /\ UNCHANGED routedEffect
    /\ UNCHANGED mimeType
    /\ UNCHANGED artifact
    /\ UNCHANGED currentVolume
    /\ UNCHANGED unmounted
    /\ UNCHANGED graph

\* one firing of a timeout of updateVolume: it publishes a sample and schedules
\* the next, storing that timeout in volumeTimerRef
VolumeSample(c) ==
    /\ c \in volumeChains
    /\ currentVolume' = 1
    /\ volumeTimer' = c
    /\ UNCHANGED <<mediaRecorder, timer, mediaStream, audioUrl, effect, recState,
                   intervals, tracksLive, urls, audioContext, ctxOpen, playIssued,
                   volumeChains>>
    /\ UNCHANGED <<isRecording, isPaused, recordingDuration, error, isPermissionDenied,
                   currentEffect, audioChunks, pausedChunks, pending, isSupported,
                   browser, preferredMimeType, recQueue, ingested, stopRequested,
                   starts, cancelled, durationAtPause, artifact, mimeType,
                   routedEffect, notSupportedCalls>>
    /\ UNCHANGED unmounted
    /\ UNCHANGED graph

\* ---- startRecording ----

\* the session is Idle: neither flag is set and no start awaits access
Idle == ~isRecording /\ ~isPaused /\ pending = <<>>

RequestsAccess_always == TRUE

\* if (!browserCompatibility.isSupported) { ...; return; }: only a supported
\* browser gets as far as getUserMedia
RequestsAccess == isSupported

\* the call, up to the await of getUserMedia; the request remembers the timer the
\* call's closure captured and whether the call was made in Idle
StartRecording ==
    /\ starts < MaxStarts
    /\ starts' = starts + 1
    /\ Commit(cleanupAudioUrl(Hook))
    /\ IF ~RequestsAccess
       THEN /\ error' = "not supported"
            /\ notSupportedCalls' = notSupportedCalls + 1
            /\ UNCHANGED pending
       ELSE /\ error' = "none"
            /\ pending' = Append(pending, [timer |-> timer, idle |-> Idle, ended |-> FALSE])
            /\ UNCHANGED notSupportedCalls
    /\ durationAtPause' = -1
    /\ UNCHANGED <<isRecording, isPaused, recordingDuration, isPermissionDenied,
                   audioChunks, pausedChunks, isSupported, browser, preferredMimeType, recQueue,
                   ingested, stopRequested, cancelled>>
    /\ UNCHANGED currentEffect
    /\ UNCHANGED routedEffect
    /\ UNCHANGED mimeType
    /\ UNCHANGED artifact
    /\ UNCHANGED currentVolume
    /\ UNCHANGED unmounted
    /\ UNCHANGED graph

\* access granted: the rest of the call, run with the timer its closure captured
StartGranted(i) ==
    /\ i \in DOMAIN pending
    /\ FreeRecorders # {}
    /\ FreeTimers # {}
    /\ LET r == Min(FreeRecorders)
           newTimer == Min(FreeTimers)
           cleared == clearInterval(Hook, pending[i].timer)
       IN /\ audioChunks' = <<>>
          /\ pausedChunks' = <<>>
          /\ ingested' = <<>>
          /\ isPermissionDenied' = FALSE
          /\ isRecording' = TRUE
          /\ isPaused' = FALSE
          /\ stopRequested' = stopRequested \ {r}
          /\ Commit([cleared EXCEPT !.mediaStream = r,
                                    !.tracksLive = @ \cup {r},
                                    !.audioContext = r,
                                    !.ctxOpen = @ \cup {r},
                                    !.volumeTimer = r,
                                    !.volumeChains = @ \cup {r},
                                    !.mediaRecorder = r,
                                    !.recState[r] = "recording",
                                    !.intervals = @ \cup {newTimer},
                                    !.timer = newTimer])
    /\ currentVolume' = 1
    /\ mimeType' = getSupportedMimeType
    /\ routedEffect' = "none"
    /\ pending' = RemoveAt(pending, i)
    /\ cancelled' = FALSE
    /\ durationAtPause' = -1
    /\ UNCHANGED <<recordingDuration, error, isSupported, browser, preferredMimeType, recQueue, starts>>
    /\ UNCHANGED currentEffect
    /\ UNCHANGED notSupportedCalls
    /\ UNCHANGED artifact
    /\ UNCHANGED unmounted
    /\ UNCHANGED graph

PermissionAfterRefusal_unchanged(notAllowed) == isPermissionDenied

\* .catch of getUserMedia: setIsPermissionDenied(true) for NotAllowedError and
\* PermissionDeniedError only
PermissionAfterRefusal(notAllowed) == IF notAllowed THEN TRUE ELSE isPermissionDenied

\* access refused (NotAllowedError), or getUserMedia failed otherwise
StartRefused(i, notAllowed) ==
    /\ i \in DOMAIN pending
    /\ isPermissionDenied' = PermissionAfterRefusal(notAllowed)
    /\ isRecording' = FALSE
    /\ isPaused' = FALSE
    /\ pending' = RemoveAt(pending, i)
    /\ durationAtPause' = -1
    /\ UNCHANGED <<HookVars, recordingDuration, error, audioChunks, pausedChunks,
                   isSupported, browser, preferredMimeType, recQueue, ingested, stopRequested, starts, cancelled>>
    /\ UNCHANGED currentEffect
    /\ UNCHANGED notSupportedCalls
    /\ UNCHANGED routedEffect
    /\ UNCHANGED mimeType
    /\ UNCHANGED artifact
    /\ UNCHANGED currentVolume
    /\ UNCHANGED unmounted
    /\ UNCHANGED graph

\* ---- pauseRecording / resumeRecording ----

CommitActive_dropCommitted(committed, active) == active

\* pausedChunksRef.current = [...pausedChunksRef.current, ...audioChunksRef.current]
CommitActive(committed, active) == committed \o active

pauseRecording ==
    /\ IF mediaRecorder = Null \/ recState[mediaRecorder] = "inactive" \/ isPaused
       THEN UNCHANGED <<HookVars, isPaused, audioChunks, pausedChunks, durationAtPause>>
       ELSE /\ pausedChunks' = CommitActive(pausedChunks, audioChunks)
            /\ audioChunks' = <<>>
            /\ isPaused' = TRUE
            /\ Commit([clearInterval(Hook, timer) EXCEPT
                          !.recState[mediaRecorder] = "paused",
                          !.timer = Null])
            /\ durationAtPause' = recordingDuration
    /\ UNCHANGED <<isRecording, recordingDuration, error, isPermissionDenied, pending,
                   isSupported, browser, preferredMimeType, recQueue, ingested, stopRequested, starts, cancelled>>
    /\ UNCHANGED currentEffect
    /\ UNCHANGED notSupportedCalls
    /\ UNCHANGED routedEffect
    /\ UNCHANGED mimeType
    /\ UNCHANGED artifact
    /\ UNCHANGED currentVolume
    /\ UNCHANGED unmounted
    /\ UNCHANGED graph

resumeRecording ==
    /\ IF mediaRecorder = Null \/ recState[mediaRecorder] # "paused"
       THEN UNCHANGED <<HookVars, isPaused>>
       ELSE /\ isPaused' = FALSE
            /\ IF timer = Null
               THEN /\ FreeTimers # {}
                    /\ Commit([Hook EXCEPT !.recState[mediaRecorder] = "recording",
                                           !.intervals = @ \cup {Min(FreeTimers)},
                                           !.timer = Min(FreeTimers)])
               ELSE Commit([Hook EXCEPT !.recState[mediaRecorder] = "recording"])
    /\ durationAtPause' = -1
    /\ UNCHANGED <<isRecording, recordingDuration, error, isPermissionDenied, audioChunks,
                   pausedChunks, pending, isSupported, browser, preferredMimeType, recQueue, ingested, stopRequested,
                   starts, cancelled>>
    /\ UNCHANGED currentEffect
    /\ UNCHANGED notSupportedCalls
    /\ UNCHANGED routedEffect
    /\ UNCHANGED mimeType
    /\ UNCHANGED artifact
    /\ UNCHANGED currentVolume
    /\ UNCHANGED unmounted
    /\ UNCHANGED graph

\* ---- createAudioBlob / saveRecording / playRecording ----

\* blobType of createAudioBlob: on iOS a label that is neither mp4 nor aac is
\* replaced by audio/mp4 or audio/aac, whichever is supported first
blobType ==
    IF isIOS /\ ~Includes(mimeType, "mp4") /\ ~Includes(mimeType, "aac")
    THEN IF isMimeTypeSupported("audio/mp4") THEN "audio/mp4"
         ELSE IF isMimeTypeSupported("audio/aac") THEN "audio/aac"
         ELSE mimeType
    ELSE mimeType

assembleBlob_keepsLabel(committed, active) ==
    IF active = <<>> /\ committed = <<>>
    THEN NoResult
    ELSE LET allChunks == committed \o active IN
         IF SumSeq(allChunks) = 0 THEN NoResult
         ELSE [absent |-> FALSE, chunks |-> allChunks, type |-> mimeType]

\* the Blob createAudioBlob builds from the two buffers: absent (null), or the
\* chunks it concatenates under the label blobType
assembleBlob(committed, active) ==
    IF active = <<>> /\ committed = <<>>
    THEN NoResult
    ELSE LET allChunks == committed \o active IN
         IF SumSeq(allChunks) = 0 THEN NoResult
         ELSE [absent |-> FALSE, chunks |-> allChunks, type |-> blobType]

createAudioBlob_activeOnly == assembleBlob(<<>>, audioChunks)

\* the Blob createAudioBlob returns
createAudioBlob == assembleBlob(pausedChunks, audioChunks)

\* createAudioBlob pauses an engine it finds recording
createAudioBlobPause(h) ==
    IF ~(audioChunks = <<>> /\ pausedChunks = <<>>)
         /\ h.mediaRecorder # Null /\ h.recState[h.mediaRecorder] = "recording"
    THEN [h EXCEPT !.recState[h.mediaRecorder] = "paused"]
    ELSE h

\* URL.createObjectURL
FreeUrls(h) == UrlIds \ (h.urls \cup {h.audioUrl})

\* returns { blob: createAudioBlob, url } or null
saveRecording ==
    /\ LET h == createAudioBlobPause(Hook) IN
       IF createAudioBlob.absent
       THEN Commit(h)
       ELSE /\ FreeUrls(h) # {}
            /\ Commit([h EXCEPT !.urls = @ \cup {Min(FreeUrls(h))}])
    /\ UNCHANGED <<isRecording, isPaused, recordingDuration, error, isPermissionDenied,
                   audioChunks, pausedChunks, pending, isSupported, browser, preferredMimeType, recQueue,
                   ingested, stopRequested, starts, cancelled, durationAtPause>>
    /\ UNCHANGED currentEffect
    /\ UNCHANGED notSupportedCalls
    /\ UNCHANGED routedEffect
    /\ UNCHANGED mimeType
    /\ UNCHANGED artifact
    /\ UNCHANGED currentVolume
    /\ UNCHANGED unmounted
    /\ UNCHANGED graph

\* returns a url of createAudioBlob or null
playRecording ==
    /\ LET h == createAudioBlobPause(cleanupAudioUrl(Hook)) IN
       IF createAudioBlob.absent
       THEN Commit(h)
       ELSE /\ FreeUrls(h) # {}
            /\ Commit([h EXCEPT !.urls = @ \cup {Min(FreeUrls(h))},
                                !.playIssued = @ \cup {Min(FreeUrls(h))},
                                !.audioUrl = Min(FreeUrls(h))])
    /\ UNCHANGED <<isRecording, isPaused, recordingDuration, error, isPermissionDenied,
                   audioChunks, pausedChunks, pending, isSupported, browser, preferredMimeType, recQueue,
                   ingested, stopRequested, starts, cancelled, durationAtPause>>
    /\ UNCHANGED currentEffect
    /\ UNCHANGED notSupportedCalls
    /\ UNCHANGED routedEffect
    /\ UNCHANGED mimeType
    /\ UNCHANGED artifact
    /\ UNCHANGED currentVolume
    /\ UNCHANGED unmounted
    /\ UNCHANGED graph

\* ---- stopRecording / cancelRecording ----

\* the requests in flight, each marked as overtaken by a stopRecording or
\* cancelRecording call
Ended(requests) == [i \in DOMAIN requests |-> [requests[i] EXCEPT !.ended = TRUE]]

stopRecording ==
    /\ IF mediaRecorder = Null \/ recState[mediaRecorder] = "inactive"
       THEN UNCHANGED <<HookVars, isRecording, isPaused, recordingDuration, recQueue,
                        stopRequested, currentVolume>>
       ELSE /\ recQueue' = [recQueue EXCEPT ![mediaRecorder] = <<"dataavailable", "stop">>]
            /\ isRecording' = FALSE
            /\ isPaused' = FALSE
            /\ recordingDuration' = 0
            /\ currentVolume' = 0
            /\ stopRequested' = stopRequested \cup {mediaRecorder}
            /\ Commit([clearTimeout(clearInterval(Hook, timer)) EXCEPT
                          !.recState[mediaRecorder] = "inactive",
                          !.timer = Null,
                          !.volumeTimer = Null])
    /\ durationAtPause' = -1
    /\ pending' = Ended(pending)
    /\ UNCHANGED <<error, isPermissionDenied, audioChunks, pausedChunks,
                   isSupported, browser, preferredMimeType, ingested, starts, cancelled>>
    /\ UNCHANGED currentEffect
    /\ UNCHANGED notSupportedCalls
    /\ UNCHANGED routedEffect
    /\ UNCHANGED mimeType
    /\ UNCHANGED artifact
    /\ UNCHANGED unmounted
    /\ UNCHANGED graph

discardChunks_activeOnly ==
    /\ audioChunks' = <<>>
    /\ pausedChunks' = pausedChunks
    /\ ingested' = pausedChunks

\* audioChunksRef.current = []; pausedChunksRef.current = []
discardChunks ==
    /\ audioChunks' = <<>>
    /\ pausedChunks' = <<>>
    /\ ingested' = <<>>

cancelRecording ==
    /\ LET stops == mediaRecorder # Null /\ recState[mediaRecorder] # "inactive"
           stopped == IF stops THEN [Hook EXCEPT !.recState[mediaRecorder] = "inactive"]
                      ELSE Hook
           released == clearInterval(stopMediaStream(stopped, mediaStream), timer)
           closed == [closeAudioContext(clearTimeout(released)) EXCEPT
                        !.audioContext = Null, !.volumeTimer = Null]
       IN /\ recQueue' = IF stops
                         THEN [recQueue EXCEPT ![mediaRecorder] = <<"dataavailable", "stop">>]
                         ELSE recQueue
          /\ Commit(cleanupAudioUrl([closed EXCEPT !.timer = Null]))
    /\ isRecording' = FALSE
    /\ isPaused' = FALSE
    /\ recordingDuration' = 0
    /\ currentVolume' = 0
    /\ discardChunks
    /\ cancelled' = TRUE
    /\ durationAtPause' = -1
    /\ pending' = Ended(pending)
    /\ UNCHANGED <<error, isPermissionDenied, isSupported, browser, preferredMimeType, stopRequested, starts>>
    /\ UNCHANGED currentEffect
    /\ UNCHANGED notSupportedCalls
    /\ UNCHANGED routedEffect
    /\ UNCHANGED mimeType
    /\ UNCHANGED artifact
    /\ UNCHANGED unmounted
    /\ UNCHANGED graph

\* mediaSourceRef.current: declared, never assigned
mediaSource == Null

EffectAfterApply_resetWhenIdle(e) == IF isRecording THEN e ELSE "none"

\* setCurrentEffect(effect): the first statement of applyEffect, before any check
EffectAfterApply(e) == e

\* the routing is rebuilt only behind
\* isRecording && audioContextRef.current && mediaSourceRef.current: the source
\* is disconnected and applyAudioEffect wires the effect, or throws and leaves
\* nothing wired (the exception is caught and logged)
applyEffect(e) ==
    /\ currentEffect' = EffectAfterApply(e)
    /\ IF ~isRecording \/ audioContext = Null \/ mediaSource = Null
       THEN UNCHANGED <<routedEffect, graph>>
       ELSE \E built \in BOOLEAN :
              /\ routedEffect' = IF built THEN e ELSE "none"
              /\ graph' = IF built
                          THEN switchEffect(graph, [type |-> e, mix |-> Omitted])
                          ELSE disconnect(graph, Source)
    /\ UNCHANGED <<HookVars, isRecording, isPaused, recordingDuration, error,
                   isPermissionDenied, audioChunks, pausedChunks, pending, isSupported, browser, preferredMimeType,
                   recQueue, ingested, stopRequested, starts, cancelled, durationAtPause>>
    /\ UNCHANGED notSupportedCalls
    /\ UNCHANGED mimeType
    /\ UNCHANGED artifact
    /\ UNCHANGED currentVolume
    /\ UNCHANGED unmounted

Next ==
    \/ StartRecording
    \/ \E i \in 1..MaxStarts : StartGranted(i)
    \/ \E i \in 1..MaxStarts, notAllowed \in BOOLEAN : StartRefused(i, notAllowed)
    \/ pauseRecording
    \/ resumeRecording
    \/ saveRecording
    \/ playRecording
    \/ stopRecording
    \/ cancelRecording
    \/ \E e \in EffectTypes : applyEffect(e)
    \/ \E r \in RecIds, size \in ChunkSizes : DataAvailable(r, size)
    \/ \E r \in RecIds, size \in ChunkSizes : FlushData(r, size)
    \/ \E r \in RecIds : OnStop(r)
    \/ \E r \in RecIds : OnError(r)
    \/ \E t \in TimerIds : Tick(t)
    \/ \E c \in RecIds : VolumeSample(c)

Spec == Init /\ [][Next]_vars

\* ---- codec resolution and assembly in every browser ----

\* the hook constructed in any browser, with or without a preferred type
InitCodec ==
    /\ browser \in Browsers
    /\ preferredMimeType \in {""} \cup MimeTypes
    /\ Constructed

\* mimeTypeRef.current = getSupportedMimeType(), as a granted start does it
ResolveMimeType ==
    /\ isSupported
    /\ mimeType' = getSupportedMimeType
    /\ UNCHANGED <<mediaRecorder, isRecording, isPaused, recordingDuration, timer,
                   mediaStream, error, isPermissionDenied, currentEffect, audioChunks,
                   pausedChunks, audioUrl, audioContext, ctxOpen, playIssued, effect,
                   pending, preferredMimeType, browser, isSupported, recState, recQueue,
                   tracksLive, intervals, urls, ingested, stopRequested, starts,
                   cancelled, durationAtPause, artifact, routedEffect,
                   notSupportedCalls, currentVolume, volumeTimer, volumeChains>>
    /\ UNCHANGED unmounted
    /\ UNCHANGED graph

\* createAudioBlob run on given buffers
Assemble(committed, active) ==
    /\ artifact' = assembleBlob(committed, active)
    /\ UNCHANGED <<mediaRecorder, isRecording, isPaused, recordingDuration, timer,
                   mediaStream, error, isPermissionDenied, currentEffect, audioChunks,
                   pausedChunks, audioUrl, audioContext, ctxOpen, playIssued, effect,
                   pending, preferredMimeType, browser, isSupported, recState, recQueue,
                   tracksLive, intervals, urls, ingested, stopRequested, starts,
                   cancelled, durationAtPause, mimeType, routedEffect,
                   notSupportedCalls, currentVolume, volumeTimer, volumeChains>>
    /\ UNCHANGED unmounted
    /\ UNCHANGED graph

NextCodec ==
    \/ ResolveMimeType
    \/ \E committed \in {<<>>, <<10>>}, active \in {<<>>, <<20>>} :
          Assemble(committed, active)

SpecCodec == InitCodec /\ [][NextCodec]_vars

\* ---- properties ----

\* committed ++ active, the order in which an artifact is assembled
Buffered == pausedChunks \o audioChunks

\* the session is Recording / Paused as the hook reports it
Recording == isRecording /\ ~isPaused
Paused == isRecording /\ isPaused

\* the current engine was stopped by stopRecording and no start was granted since
AfterStop == mediaRecorder # Null /\ mediaRecorder \in stopRequested

\* what a no-op must leave alone: flags, buffers, duration, timers, engine states
SessionState == <<isRecording, isPaused, audioChunks, pausedChunks, recordingDuration,
                  timer, intervals, recState>>

\* C1: in every reachable state committed ++ active is exactly the sequence of
\* non-empty chunks delivered since the buffers were last cleared, in order, and
\* the artifact assembled from a non-empty buffer consists of those chunks, so
\* its byte length is the sum of their lengths.
C1_BufferIsIngestion ==
    /\ Buffered = ingested
    /\ ingested # <<>> =>
         /\ createAudioBlob.chunks = ingested
         /\ SumSeq(createAudioBlob.chunks) = SumSeq(ingested)

\* start, chunk A (10), pause, resume, chunk B (20), stop, both engine events
\* delivered: the artifact is A then B, 30 bytes
C1_Witness ==
    /\ AfterStop /\ recQueue[mediaRecorder] = <<>>
    /\ pausedChunks = <<10>> /\ audioChunks = <<20>>
    /\ createAudioBlob.chunks = <<10, 20>>
    /\ SumSeq(createAudioBlob.chunks) = 30

\* C2: right after cancelRecording, from whatever state it was called in,
\* recordingDuration is 0, both buffers are empty and both flags are false.
C2_CancelResets ==
    [][cancelRecording =>
         /\ recordingDuration' = 0
         /\ audioChunks' = <<>> /\ pausedChunks' = <<>>
         /\ ~isRecording' /\ ~isPaused']_vars

\* cancelRecording has just stopped a live engine (its final data is still
\* queued) while another startRecording call awaits access
C2_Witness ==
    /\ cancelled /\ pending # <<>>
    /\ mediaRecorder # Null /\ recQueue[mediaRecorder] = <<"dataavailable", "stop">>
    /\ recordingDuration = 0 /\ audioChunks = <<>> /\ pausedChunks = <<>>
    /\ ~isRecording /\ ~isPaused /\ mediaStream = Null /\ timer = Null

\* C3: after cancelRecording and until the next start is granted access, no data
\* callback writes into the buffers, so saveRecording and playRecording return
\* absent.
C3_NoWriteAfterCancel ==
    cancelled => (audioChunks = <<>> /\ pausedChunks = <<>> /\ createAudioBlob.absent)

\* C4: saveRecording and playRecording return absent exactly when no chunk has
\* been ingested since the buffers were last cleared.
C4_AbsentIffNothingIngested ==
    createAudioBlob.absent <=> ingested = <<>>

\* a Paused session whose chunks are all committed: an artifact is returned
C4_Witness ==
    /\ Paused /\ audioChunks = <<>> /\ pausedChunks # <<>>
    /\ ingested # <<>> /\ ~createAudioBlob.absent

\* C5: after stopRecording the buffered chunks stay: every step other than
\* cancelRecording and a granted startRecording keeps them as a prefix of the
\* buffer and of the artifact saveRecording/playRecording return, and pause,
\* resume, stop, applyEffect, save, play, timer ticks and a fatal error leave the
\* buffer unchanged.
C5_RetainedAfterStop ==
    [][AfterStop =>
         /\ \/ cancelRecording
            \/ \E i \in 1..MaxStarts : StartGranted(i)
            \/ /\ IsPrefix(Buffered, Buffered')
               /\ Buffered # <<>> =>
                    /\ ~createAudioBlob'.absent
                    /\ IsPrefix(Buffered, createAudioBlob'.chunks)
         /\ (\/ pauseRecording \/ resumeRecording \/ stopRecording
             \/ saveRecording \/ playRecording
             \/ \E e \in EffectTypes : applyEffect(e)
             \/ \E t \in TimerIds : Tick(t)
             \/ \E r \in RecIds : OnError(r)) => Buffered' = Buffered]_vars

\* stopped with one chunk buffered and the engine's final chunk delivered after
\* it; the play handle shows playRecording has run since
C5_Witness ==
    /\ AfterStop /\ recQueue[mediaRecorder] = <<"stop">>
    /\ Len(Buffered) = 2 /\ audioUrl # Null
    /\ ~createAudioBlob.absent /\ createAudioBlob.chunks = Buffered

\* C6: once the stop callback of an engine stopped by stopRecording has run, the
\* device stream is released: its tracks are stopped and mediaStream is null.
C6_StopReleasesStream ==
    \A r \in stopRequested :
        recQueue[r] = <<>> => (r \notin tracksLive /\ mediaStream = Null)

\* C7: pauseRecording in Recording yields isRecording, isPaused, the engine
\* paused and no duration timer running; resumeRecording in Paused yields
\* ~isPaused, isRecording, the engine recording and exactly one duration timer.
C7_PauseThenResume ==
    [][/\ (pauseRecording /\ Recording) =>
            /\ isRecording' /\ isPaused'
            /\ recState'[mediaRecorder'] = "paused"
            /\ intervals' = {}
       /\ (resumeRecording /\ Paused) =>
            /\ isRecording' /\ ~isPaused'
            /\ recState'[mediaRecorder'] = "recording"
            /\ Cardinality(intervals') = 1]_vars

\* C8: pauseRecording outside Recording changes nothing.
C8_PauseNoOpOutsideRecording ==
    [][(pauseRecording /\ ~Recording) => UNCHANGED SessionState]_vars

\* C9: resumeRecording with isPaused = false changes nothing.
C9_ResumeNoOpUnlessPaused ==
    [][(resumeRecording /\ ~isPaused) => UNCHANGED SessionState]_vars

\* C10: pauseRecording and resumeRecording leave recordingDuration unchanged, and
\* the value right after a resume is the value at the pause it ends.
C10_DurationKeptAcrossPause ==
    [][(pauseRecording \/ resumeRecording) =>
         /\ recordingDuration' = recordingDuration
         /\ (resumeRecording /\ Paused /\ durationAtPause >= 0) =>
               recordingDuration' = durationAtPause]_vars

\* C11: recordingDuration is a non-negative integer; it increases only through
\* timer ticks, each adding exactly 1; a tick is delivered only while the
\* session is Recording; and a session counts from 0 (a granted start leaves
\* recordingDuration at 0 and, until the session is stopped or cancelled, only
\* ticks change it), so that after N ticks it equals N.
C11_DurationCountsTicks ==
    [][/\ recordingDuration \in Nat /\ recordingDuration' \in Nat
       /\ recordingDuration' > recordingDuration =>
            /\ \E t \in TimerIds : Tick(t)
            /\ recordingDuration' = recordingDuration + 1
       /\ (\E t \in TimerIds : Tick(t)) => Recording
       /\ (\E i \in 1..MaxStarts : StartGranted(i)) => recordingDuration' = 0
       /\ recordingDuration' # recordingDuration =>
            \/ \E t \in TimerIds : Tick(t)
            \/ stopRecording \/ cancelRecording]_vars

\* C12: when the capability is present and access is granted, a startRecording
\* call made in Idle (and answered with the session as the call left it: no
\* other request pending, both flags still false) ends with isRecording true,
\* isPaused false, mediaStream non-null and the capture engine created and
\* recording.
C12_StartReachesRecording ==
    [][\A i \in 1..MaxStarts :
         (StartGranted(i) /\ pending[i].idle /\ Len(pending) = 1
            /\ ~isRecording /\ ~isPaused) =>
            /\ isRecording' /\ ~isPaused'
            /\ mediaStream' # Null
            /\ mediaRecorder' # Null /\ recState'[mediaRecorder'] = "recording"]_vars

C14_LastErrorIsLatestFailure ==
    [][/\ (StartRecording /\ ~isSupported) => error' = "not supported"
       /\ \A i \in 1..MaxStarts :
            StartRefused(i, TRUE) => (error' # "none" /\ error' = "permission denied")
       /\ \A r \in RecIds :
            OnError(r) => (error' # "none" /\ error' = "recorder error")]_vars

\* C15: without the capability, startRecording invokes onNotSupported once,
\* requests no device access (no request is pending afterwards, no stream is
\* live) and leaves the session Idle: both flags false, mediaStream null, the
\* buffers and recordingDuration unchanged.
C15_UnsupportedStart ==
    [][(StartRecording /\ ~isSupported) =>
         /\ notSupportedCalls' = notSupportedCalls + 1
         /\ pending' = <<>> /\ tracksLive' = {}
         /\ ~isRecording' /\ ~isPaused' /\ mediaStream' = Null
         /\ UNCHANGED <<audioChunks, pausedChunks, recordingDuration>>]_vars

\* two unsupported starts were made: with the call at mount that is three
\* invocations of onNotSupported, and nothing was requested
C15_Witness ==
    /\ ~isSupported /\ starts = 2 /\ notSupportedCalls = 3
    /\ error = "not supported" /\ pending = <<>>
    /\ ~isRecording /\ ~isPaused /\ mediaStream = Null

\* the current engine went inactive through a fatal error: it was neither
\* stopped by stopRecording nor by a cancelRecording since it was created
AfterError ==
    /\ mediaRecorder # Null /\ recState[mediaRecorder] = "inactive"
    /\ mediaRecorder \notin stopRequested /\ ~cancelled

\* C16: a fatal error of the session's engine during Recording or Paused leaves
\* both flags false and the device stream released (its tracks stopped,
\* mediaStream null) and keeps every chunk ingested before it; from then on,
\* until cancelRecording or a granted start, the chunks stay a prefix of the
\* buffer and of the artifact saveRecording returns.
C16_ErrorKeepsChunks ==
    [][/\ \A r \in RecIds :
            (OnError(r) /\ r = mediaRecorder /\ isRecording) =>
               /\ ~isRecording' /\ ~isPaused'
               /\ mediaStream' = Null /\ r \notin tracksLive'
               /\ Buffered' = Buffered /\ ingested' = ingested
               /\ AfterError'
       /\ AfterError =>
            \/ cancelRecording
            \/ \E i \in 1..MaxStarts : StartGranted(i)
            \/ /\ IsPrefix(Buffered, Buffered')
               /\ Buffered # <<>> =>
                    /\ ~createAudioBlob'.absent
                    /\ IsPrefix(Buffered, createAudioBlob'.chunks)]_vars

\* the engine failed while Paused with a chunk committed: the chunk is still
\* there, the stream is released, the engine's last events are still queued
C16_Witness ==
    /\ AfterError /\ recQueue[mediaRecorder] = <<"dataavailable", "stop">>
    /\ pausedChunks # <<>> /\ ~createAudioBlob.absent
    /\ createAudioBlob.chunks = ingested
    /\ ~isRecording /\ ~isPaused
    /\ mediaStream = Null /\ mediaRecorder \notin tracksLive

\* what cancelRecording leaves of the session of engine r besides the buffers:
\* both flags false, duration 0, no duration timer, the device stream released
\* and the processing-graph context closed
Released(r) ==
    /\ ~isRecording /\ ~isPaused /\ recordingDuration = 0
    /\ timer = Null
    /\ mediaStream = Null /\ r \notin tracksLive
    /\ r \notin ctxOpen

\* C17: cancelRecording and stopRecording, called in the same Recording or
\* Paused state and run until the engine's stop callback has been delivered,
\* leave the same isRecording, isPaused, recordingDuration, duration timer,
\* device stream and processing-graph context: the values cancelRecording
\* leaves at once (Released) are those of the session at quiescence whichever of
\* the two ended it.
C17_StopMatchesCancel ==
    [][/\ (cancelRecording /\ isRecording /\ mediaRecorder # Null) =>
            Released(mediaRecorder)'
       /\ \A r \in RecIds :
            (OnStop(r) /\ r = mediaRecorder /\ (r \in stopRequested \/ cancelled)) =>
               Released(r)']_vars

\* C18: applyEffect(spec) sets currentEffect to spec in whatever state it is
\* called, whether or not a routing graph is or can be built, and it changes no
\* other session state: flags, duration, buffers, engine, stream, timers,
\* context, error and permission flag are as before.
C18_ApplyEffectSetsCurrent ==
    [][\A e \in EffectTypes :
         applyEffect(e) =>
            /\ currentEffect' = e
            /\ UNCHANGED <<isRecording, isPaused, recordingDuration, audioChunks,
                           pausedChunks, mediaRecorder, recState, mediaStream,
                           tracksLive, timer, intervals, audioContext, ctxOpen,
                           error, isPermissionDenied, audioUrl, urls>>]_vars

\* an effect was applied while Paused, where no routing is attempted
C18_Witness ==
    /\ currentEffect = "echo" /\ Paused
    /\ mediaRecorder # Null /\ recState[mediaRecorder] = "paused"

\* C19: an effect given through applyEffect becomes the effect of the live
\* routing graph: at once when the session is Recording with an active stream
\* and an open context, and in any case whenever the session is Recording with
\* an open context the routed effect equals currentEffect.
C19_RoutedEffectIsCurrent ==
    [][/\ \A e \in EffectTypes :
            (applyEffect(e) /\ Recording /\ mediaStream # Null
               /\ audioContext \in ctxOpen) => routedEffect' = e
       /\ (Recording /\ audioContext \in ctxOpen)' =>
             routedEffect' = currentEffect']_vars

\* C20: playRecording revokes the handle it issued earlier before it issues a new
\* one, so at most one handle issued by playRecording is unrevoked at any time
\* (and it is the one audioUrl holds); startRecording and cancelRecording revoke
\* it too, leaving none.
C20_OnePlayHandle ==
    [][/\ Cardinality(playIssued') <= 1
       /\ playIssued' \subseteq {audioUrl'}
       /\ (StartRecording \/ cancelRecording) => (playIssued' = {} /\ audioUrl' = Null)
       /\ (playRecording /\ ~createAudioBlob.absent) =>
             (playIssued' = {audioUrl'} /\ audioUrl' # Null)]_vars

\* playRecording has issued a handle while a handle from saveRecording is
\* outstanding as well: two object URLs exist, one of them play-issued
C20_Witness ==
    /\ audioUrl # Null /\ playIssued = {audioUrl}
    /\ Cardinality(urls) = 2

\* C21: every artifact handle the session issues, by saveRecording or by
\* playRecording, is revoked before the session issues another: at most one
\* handle issued by the session is outstanding at any time.
C21_OneOutstandingHandle == Cardinality(urls) <= 1

\* the ordered preference list of a device: on iOS the iOS list, then the
\* general list
PreferenceOrder == (IF browser.iOS THEN iOSMimeTypes ELSE <<>>) \o mimeTypes

\* the positions of the preference list the browser supports
SupportedPositions == {i \in DOMAIN PreferenceOrder : PreferenceOrder[i] \in browser.types}

\* C22: codec resolution returns the preferred type when one is given and
\* supported; otherwise the first supported entry of the preference list (iOS
\* list first on iOS, then the general list); otherwise, when no entry is
\* supported, "audio/webm".  Checked for every browser of Browsers.
C22_CodecResolution ==
    [][ResolveMimeType =>
         mimeType' =
            IF preferredMimeType # "" /\ preferredMimeType \in browser.types
            THEN preferredMimeType
            ELSE IF SupportedPositions = {} THEN "audio/webm"
            ELSE PreferenceOrder[Min(SupportedPositions)]]_vars

\* on iOS with an unsupported preferred type, aac is the first supported entry
\* of the iOS list and wins over webm
C22_Witness ==
    /\ browser.iOS /\ isSupported
    /\ preferredMimeType = "audio/flac"
    /\ browser.types = {"audio/aac", "audio/webm"}
    /\ mimeType = "audio/aac"

\* C23: an artifact assembled from non-empty buffers consists of exactly the
\* buffered chunks; its label is audio/mp4 if supported, else audio/aac if
\* supported, when the device is iOS and the label resolved at capture start is
\* neither an mp4 nor an aac one; in every other case (another device, a label
\* already mp4 or aac, neither substitute supported) it is the resolved label.
C23_IOSLabelSubstitution ==
    [][\A committed \in {<<>>, <<10>>}, active \in {<<>>, <<20>>} :
         (Assemble(committed, active) /\ committed \o active # <<>>) =>
            /\ ~artifact'.absent
            /\ artifact'.chunks = committed \o active
            /\ artifact'.type =
                 IF /\ browser.iOS
                    /\ ~Includes(mimeType, "mp4") /\ ~Includes(mimeType, "aac")
                    /\ {"audio/mp4", "audio/aac"} \cap browser.types # {}
                 THEN IF "audio/mp4" \in browser.types THEN "audio/mp4" ELSE "audio/aac"
                 ELSE mimeType]_vars

\* on iOS the preferred wav was resolved; mp4 is not supported and aac is, so
\* the artifact of the two chunks is labelled audio/aac
C23_Witness ==
    /\ browser.iOS /\ mimeType = "audio/wav"
    /\ browser.types = {"audio/wav", "audio/aac"}
    /\ artifact = [absent |-> FALSE, chunks |-> <<10, 20>>, type |-> "audio/aac"]

\* C24: the aggregate isSupported equals the conjunction of the three primitive
\* flags whatever types are supported; and with an unsupported preferred type
\* and a supported list entry (the primitives present) the resolved type is the
\* first supported list entry and isSupported is true.
C24_AggregateSupport ==
    [][/\ isSupported =
            (browser.mediaRecorder /\ browser.getUserMedia /\ browser.audioContext)
       /\ (/\ ResolveMimeType
           /\ preferredMimeType # "" /\ preferredMimeType \notin browser.types
           /\ SupportedPositions # {}) =>
             /\ mimeType' = PreferenceOrder[Min(SupportedPositions)]
             /\ isSupported']_vars

\* the preferred flac is unsupported, ogg is the first supported list entry
C24_Witness ==
    /\ ~browser.iOS /\ isSupported
    /\ preferredMimeType = "audio/flac"
    /\ browser.types = {"audio/ogg", "audio/wav"}
    /\ mimeType = "audio/ogg"

\* nothing is in flight: no start awaits access and no engine has events queued
Quiescent == pending = <<>> /\ \A r \in RecIds : recQueue[r] = <<>>

\* C25: in every quiescent state mediaStream is non-null exactly when
\* isRecording is true: null before the first start and after stop, cancel and
\* a fatal error, non-null while Recording or Paused.
C25_StreamIffRecording ==
    Quiescent => ((mediaStream # Null) <=> isRecording)

\* C26: after each terminal transition (stopRecording of a live engine,
\* cancelRecording, a fatal error of the session's engine) no duration tick and
\* no volume sample remains scheduled, so that recordingDuration and
\* currentVolume cannot change until the next startRecording.
C26_NothingScheduledAfterEnd ==
    [][(\/ stopRecording /\ mediaRecorder # Null /\ recState[mediaRecorder] # "inactive"
        \/ cancelRecording
        \/ \E r \in RecIds : OnError(r) /\ r = mediaRecorder) =>
          /\ intervals' = {}
          /\ volumeChains' = {}]_vars

\* C28: at most one volume sampling chain is alive at any time, and none is
\* alive once the session has left Recording (after stop, cancel or a fatal
\* error), so that no sample scheduled before the reset publishes a volume or
\* reschedules itself afterwards.
C28_OneSamplingChain ==
    /\ Cardinality(volumeChains) <= 1
    /\ ~isRecording => volumeChains = {}

\* ---- teardown ----

MaxTeardownStarts == 1 \* startRecording calls made before the component unmounts

\* the component unmounts: React runs the cleanup of the hook's last effect run and
\* renders no more
Unmount ==
    /\ ~unmounted
    /\ unmounted' = TRUE
    /\ LET r == EffectCleanup(Hook) IN
         /\ mediaRecorder' = r.mediaRecorder
         /\ timer' = r.timer
         /\ mediaStream' = r.mediaStream
         /\ audioUrl' = r.audioUrl
         /\ effect' = r.effect
         /\ recState' = r.recState
         /\ intervals' = r.intervals
         /\ tracksLive' = r.tracksLive
         /\ urls' = r.urls
         /\ audioContext' = r.audioContext
         /\ ctxOpen' = r.ctxOpen
         /\ playIssued' = r.playIssued \cap r.urls
         /\ volumeTimer' = r.volumeTimer
         /\ volumeChains' = r.volumeChains
    /\ UNCHANGED <<isRecording, isPaused, recordingDuration, error, isPermissionDenied,
                   currentEffect, currentVolume, audioChunks, pausedChunks, mimeType,
                   pending, preferredMimeType, browser, isSupported, recQueue, ingested,
                   stopRequested, starts, cancelled, durationAtPause, notSupportedCalls,
                   artifact, routedEffect>>
    /\ UNCHANGED graph

\* a mounted component takes the steps of the session, an unmounted one takes none
NextTeardown ==
    \/ ~unmounted /\ Next /\ starts' <= MaxTeardownStarts
    \/ Unmount

SpecTeardown == Init /\ [][NextTeardown]_vars

\* C27: unmounting in any session state cancels the duration timer and the
\* volume sampler, stops the tracks of the device stream, closes the audio
\* context and revokes the outstanding object URL.
C27_UnmountReleasesAll ==
    [][Unmount =>
          /\ intervals' = {}
          /\ volumeChains' = {}
          /\ tracksLive' = {}
          /\ ctxOpen' = {}
          /\ urls' = {}]_vars

\* ---- the routing of effects, on a media source node that exists ----

InitEffects ==
    /\ browser = SupportedBrowser
    /\ preferredMimeType = ""
    /\ Constructed

\* applyAudioEffect called on a source node with no connection yet
ApplyAudioEffect(options) ==
    /\ graph.made = 0
    /\ graph' = applyAudioEffect(graph, options)
    /\ currentEffect' = options.type
    /\ UNCHANGED <<HookVars, isRecording, isPaused, recordingDuration, error,
                   isPermissionDenied, currentVolume, audioChunks, pausedChunks, mimeType,
                   pending, preferredMimeType, browser, isSupported, recQueue, ingested,
                   stopRequested, starts, cancelled, durationAtPause, notSupportedCalls,
                   unmounted, artifact, routedEffect>>

\* the routing block of applyEffect run on a source node that is already wired
SwitchEffect(options) ==
    /\ graph.made \in 1..(MaxEffects - 1)
    /\ graph' = switchEffect(graph, options)
    /\ currentEffect' = options.type
    /\ UNCHANGED <<HookVars, isRecording, isPaused, recordingDuration, error,
                   isPermissionDenied, currentVolume, audioChunks, pausedChunks, mimeType,
                   pending, preferredMimeType, browser, isSupported, recQueue, ingested,
                   stopRequested, starts, cancelled, durationAtPause, notSupportedCalls,
                   unmounted, artifact, routedEffect>>

NextEffects ==
    \/ \E type \in EffectInputs, mix \in MixInputs :
          ApplyAudioEffect([type |-> type, mix |-> mix])
    \/ \E type \in EffectInputs, mix \in MixInputs :
          SwitchEffect([type |-> type, mix |-> mix])

SpecEffects == InitEffects /\ [][NextEffects]_vars

\* the gain nodes of a graph, the gain of one of them, the nodes connected to a node
GainNodes(g) == {p[1] : p \in g.gains}
GainOf(g, node) == CHOOSE v \in 0..10 : <<node, v>> \in g.gains
InputsOf(g, node) == {e[1] : e \in {x \in g.edges : x[2] = node}}
OutputsOf(g, node) == {e[2] : e \in {x \in g.edges : x[1] = node}}

\* the nodes that are neither the source, the destination nor a gain node and that
\* the source feeds, directly or through other such nodes
RECURSIVE FedTransforms(_, _)
FedTransforms(g, found) ==
    LET more == {t \in UNION {OutputsOf(g, u) : u \in found \cup {Source}} :
                    t \notin GainNodes(g) \cup {Source, Destination}}
    IN IF more \subseteq found THEN found ELSE FedTransforms(g, found \cup more)

\* the gain nodes that carry the unmodified source to the destination
DryInputs(g) ==
    {d \in InputsOf(g, Destination) \cap GainNodes(g) : Source \in InputsOf(g, d)}

\* the gain nodes that carry the transformed source to the destination
WetInputs(g) ==
    {w \in InputsOf(g, Destination) \cap GainNodes(g) :
        /\ Source \notin InputsOf(g, w)
        /\ InputsOf(g, w) \cap FedTransforms(g, {}) # {}}

\* C30: for every effect type other than None, applyAudioEffect on an unwired
\* source builds exactly one dry path (source, dry gain of 1 - mix, destination)
\* and exactly one wet path (source, transform, wet gain of mix, destination),
\* with mix 0.5 when omitted; for None or a type outside the enum it builds the
\* single connection source to destination and no gain node.
C30_DryWetSplit ==
    [][\A type \in EffectInputs, mix \in MixInputs :
          ApplyAudioEffect([type |-> type, mix |-> mix]) =>
            LET g == graph'
                m == IF mix = Omitted THEN 5 ELSE mix
            IN IF type \in AudioEffectType \ {"none"}
               THEN /\ Cardinality(InputsOf(g, Destination)) = 2
                    /\ Cardinality(OutputsOf(g, Source)) = 2
                    /\ Cardinality(DryInputs(g)) = 1
                    /\ Cardinality(WetInputs(g)) = 1
                    /\ \A d \in DryInputs(g) : GainOf(g, d) = 10 - m
                    /\ \A w \in WetInputs(g) : GainOf(g, w) = m
               ELSE /\ g.edges = {<<Source, Destination>>}
                    /\ g.gains = {}]_vars

\* applyAudioEffect has built a telephone effect with the mix omitted
C30_Witness ==
    /\ graph.made = 1
    /\ currentEffect = "telephone"
    /\ <<Node(1, "wetGain"), 5>> \in graph.gains

\* the effect instances whose wet gain node is connected to the destination
WetInstances(g) == {w.inst : w \in {x \in InputsOf(g, Destination) : x.role = "wetGain"}}

C31_OneEngineOneStream ==
    /\ Cardinality({r \in RecIds : recState[r] # "inactive"}) <= 1
    /\ Cardinality(tracksLive) <= 1

\* C32: a startRecording whose request was still awaiting the grant when
\* cancelRecording or stopRecording was called does nothing when the grant
\* arrives: the session does not enter Recording, no capture engine and no
\* timer is started, and the granted stream is not left with live tracks.
C32_GrantAfterCancelIsDropped ==
    [][\A i \in 1..MaxStarts :
         (StartGranted(i) /\ pending[i].ended) =>
            /\ ~isRecording'
            /\ {r \in RecIds : recState'[r] # "inactive"} \subseteq
                  {r \in RecIds : recState[r] # "inactive"}
            /\ intervals' \subseteq intervals
            /\ tracksLive' \subseteq tracksLive]_vars

\* C33: saveRecording and playRecording change nothing of the session but the
\* outstanding handle: the engines' states, isRecording, isPaused, the duration
\* timer, the buffers and recordingDuration are as before the call; and in the
\* state they leave, isPaused is true exactly when the session's engine is paused.
C33_SaveAndPlayOnlyIssueHandle ==
    [][(saveRecording \/ playRecording) =>
         /\ UNCHANGED <<recState, isRecording, isPaused, timer, intervals, audioChunks,
                        pausedChunks, recordingDuration>>
         /\ isPaused' <=> (mediaRecorder' # Null /\ recState'[mediaRecorder'] = "paused")]_vars

\* C34: a duration timer is scheduled exactly when isRecording is true and
\* isPaused is false, and at most one is scheduled at any time.
C34_TimerIffRecording ==
    /\ Cardinality(intervals) <= 1
    /\ (intervals # {}) <=> (isRecording /\ ~isPaused)

\* C35: whenever a granted startRecording brings the session into Recording,
\* recordingDuration is 0 at that moment, however the previous session ended.
C35_NewSessionStartsAtZero ==
    [][(\E i \in 1..MaxStarts : StartGranted(i)) =>
          (isRecording' => recordingDuration' = 0)]_vars

\* C36: isPaused implies isRecording in every reachable state.
C36_PausedImpliesRecording == isPaused => isRecording

\* C37: pauseRecording in Recording, and every step taken while the session
\* stays Paused, leaves mediaStream as it is and stops no track of it; the pause
\* itself revokes no object URL.
C37_PauseKeepsDevice ==
    [][((pauseRecording /\ Recording) \/ (Paused /\ Paused')) =>
          /\ mediaStream' = mediaStream
          /\ mediaStream \in tracksLive => mediaStream' \in tracksLive'
          /\ pauseRecording => (urls' = urls /\ playIssued' = playIssued)]_vars

\* C38: a startRecording that fails, because the capability is missing or because
\* device access is refused, leaves the chunk buffers, recordingDuration,
\* isRecording and isPaused as they were.
C38_FailedStartChangesNothing ==
    [][(\/ StartRecording /\ ~RequestsAccess
        \/ \E i \in 1..MaxStarts, notAllowed \in BOOLEAN : StartRefused(i, notAllowed)) =>
          UNCHANGED <<audioChunks, pausedChunks, recordingDuration, isRecording, isPaused>>]_vars

\* C39: at most one audio context created by the session is open at any time,
\* and when a granted startRecording has created its context every context
\* created earlier is closed.
C39_OneOpenContext ==
    [][/\ Cardinality(ctxOpen') <= 1
       /\ (\E i \in 1..MaxStarts : StartGranted(i)) => ctxOpen' \subseteq {audioContext'}]_vars

====
